---- MODULE Spec2Model ----
(***************************************************************************)
(* A state-machine model of snss: the record layer (snss/lib/node.py:      *)
(* Node, Tree), the dispatch layer (snss/lib/protocol.py: If, Handler,     *)
(* Protocol) and the record catalogue of snss/protocol.py.                 *)
(*                                                                         *)
(* Python values are modelled by strings, Python dicts by functions (or,   *)
(* where the insertion order is observable, by sequences of entries), and  *)
(* Python's None by the string "None".                                     *)
(***************************************************************************)
EXTENDS Integers, Sequences, FiniteSets, TLC

None == "None"

(***************************************************************************)
(* Bounds of the model.                                                    *)
(***************************************************************************)
\* the number of handler descriptors one dispatcher type may hold
MaxHandlers == 3

(***************************************************************************)
(* snss/lib/protocol.py: Status                                            *)
(***************************************************************************)
DAEMON == 0
NORMAL == 1
IMPORTANT == 2
URGENT == 3
Status == {DAEMON, NORMAL, IMPORTANT, URGENT}

\* the wildcard: an instance of an empty class, not a Node subclass
ALL_NODES == "ALL_NODES"

\* the record types of the catalogue the dispatch layer is exercised with
NodeTypes == {"Command", "SessionCommands", "IDAndIndex"}

\* the dispatcher types (direct subclasses of Protocol) and their instances
ProtocolTypes == {"Sessions", "Other"}
Protocols == {"p1", "p2"}
\* the child instances configure creates: one per parent instance
ChildInstances == {"c1", "c2"}
Instances == Protocols \cup ChildInstances

\* configuration keys and record field keys, and the values they may hold
ConfigKeys == {"mode"}
DataKeys == {"x"}
Values == {"a", "b"}

\* the reaction functions a client may register; is_reducer(g) was applied
Functions == {"f", "g"}
\* two more, plain ones, that are registered for both sides of a pair of types
PairFunctions == {"h", "k"}
ResponderTagged == {}
ReducerTagged == {"g"}

VARIABLES
    _registry,  \* Protocol subclass -> its _registry dict, in insertion order
    _handlers,  \* Protocol subclass -> key -> groups <<condition, cases>>
    protocols,  \* instance -> [cls, _config, _aborted]; cls is None before __init__
    registry,   \* Node subclass -> the type whose WeakSet its .registry names
    members,    \* the contents of each type's own WeakSet
    last,       \* what the last call did: its calls, reports and exception
    nodes,        \* Tree subclass -> its nodes dict: switch key -> Node subclass
    switch_spec,  \* Node subclass -> its switch_spec (tree, key), or None
    default_node, \* Tree subclass -> its default_node, or None
    objects,      \* record instance -> [type, _data, buffer, origin]
    _children,    \* Protocol subclass -> the subclasses declared extends=it
    children      \* instance -> child class -> its child instance, or None

childVars == <<_children, children>>
dispatchVars == <<_registry, _handlers, protocols, registry, members,
                  _children, children>>
treeVars == <<nodes, switch_spec, default_node, objects>>
vars == <<_registry, _handlers, protocols, registry, members, last,
          nodes, switch_spec, default_node, objects, _children, children>>

(***************************************************************************)
(* snss/lib/protocol.py: If                                                *)
(***************************************************************************)
NoCondition == [kind |-> None, key |-> None, cond |-> None, checks_node |-> FALSE]

\* If.configured(key=cond): __init__ leaves checks_node False
configured(key, cond) ==
    [kind |-> "configured", key |-> key, cond |-> cond, checks_node |-> FALSE]

\* If.has(key=cond): sets checks_node
has(key, cond) ==
    [kind |-> "has", key |-> key, cond |-> cond, checks_node |-> TRUE]

\* a record as the dispatch layer sees it: its runtime type and its data
NoNode == [type |-> None, x |-> None]
NodeOf(type, x) == [type |-> type, x |-> x]

\* _if_check with a literal condition
_if_check(value, condition) == condition = value

\* c.check, the bound method of a condition: a callable of (protocol, node)
CheckMethod(self) == [kind |-> "method", self |-> self]

\* If.returns_false(check): If.__init__ leaves checks_node False
returns_false(chk) ==
    [kind |-> "returns_false", check |-> chk, checks_node |-> FALSE]

\* If.__and__, If.__or__: type(self)(lambda ...), checks_node False
__and__(self, other) ==
    [kind |-> "and", self |-> self, other |-> other, checks_node |-> FALSE]

__or__(self, other) ==
    [kind |-> "or", self |-> self, other |-> other, checks_node |-> FALSE]

\* If.check(protocol, node), given the protocol's _config.  The lambda of
\* returns_false evaluates If(check).check(protocol, node): a callable check
\* is called, and any other object, an If instance included, is taken by
\* its truth value, which is True
RECURSIVE check(_, _, _)
check(condition, config, node) ==
    CASE condition.kind = "configured" ->
            _if_check(config[condition.key], condition.cond)
      [] condition.kind = "has" ->
            _if_check(node[condition.key], condition.cond)
      [] condition.kind = "returns_false" ->
            ~(IF condition.check.kind = "method"
              THEN check(condition.check.self, config, node)
              ELSE TRUE)
      [] condition.kind = "and" ->
            check(condition.self, config, node)
                /\ check(condition.other, config, node)
      [] condition.kind = "or" ->
            check(condition.self, config, node)
                \/ check(condition.other, config, node)
      [] OTHER -> TRUE

\* whether If.check raises: node.data() on None has no attribute data, and
\* a composed condition raises when its evaluation, which and and or cut
\* short as Python does, comes to such a call
RECURSIVE CheckRaises(_, _, _)
CheckRaises(condition, config, node) ==
    CASE condition.kind = "has" -> node = NoNode
      [] condition.kind = "returns_false" ->
            IF condition.check.kind = "method"
            THEN CheckRaises(condition.check.self, config, node)
            ELSE FALSE
      [] condition.kind = "and" ->
            IF CheckRaises(condition.self, config, node) THEN TRUE
            ELSE IF check(condition.self, config, node)
            THEN CheckRaises(condition.other, config, node)
            ELSE FALSE
      [] condition.kind = "or" ->
            IF CheckRaises(condition.self, config, node) THEN TRUE
            ELSE IF check(condition.self, config, node) THEN FALSE
            ELSE CheckRaises(condition.other, config, node)
      [] OTHER -> FALSE

(***************************************************************************)
(* snss/lib/protocol.py: Handler                                           *)
(***************************************************************************)
Handler(function, responder_cls, status, pass_protocol) ==
    [function |-> function, responder_cls |-> responder_cls,
     status |-> status, pass_protocol |-> pass_protocol]

\* Handler.__lt__
lt(self, other) == -self.status < -other.status

is_responder(self) ==
    IF self.function \in ResponderTagged THEN TRUE ELSE self.responder_cls # None

is_reducer(self) == self.function \in ReducerTagged

\* Handler.__call__: the arguments the bound function receives
HandlerArgs(self, previous_value, protocol, node) ==
    (IF self.pass_protocol THEN <<protocol>> ELSE <<>>)
    \o <<node.type>>
    \o (IF is_responder(self) THEN <<self.responder_cls>> ELSE <<>>)
    \o (IF is_reducer(self) THEN <<previous_value>> ELSE <<>>)

(***************************************************************************)
(* heapq.heappush over Handler.__lt__, as Protocol.handle uses it.  The    *)
(* list is 1-based here and 0-based there.                                 *)
(***************************************************************************)
RECURSIVE _siftdown(_, _, _, _)
_siftdown(heap, startpos, pos, newitem) ==
    IF pos > startpos
    THEN LET parentpos == (pos - 1) \div 2
             parent == heap[parentpos + 1]
         IN  IF lt(newitem, parent)
             THEN _siftdown([heap EXCEPT ![pos + 1] = parent],
                            startpos, parentpos, newitem)
             ELSE [heap EXCEPT ![pos + 1] = newitem]
    ELSE [heap EXCEPT ![pos + 1] = newitem]

heappush(heap, item) == _siftdown(Append(heap, item), 0, Len(heap), item)

(***************************************************************************)
(* The handler table of one dispatcher type: _handlers, a dict of dicts of *)
(* lists.  Each key maps to its groups in insertion order.                 *)
(***************************************************************************)
HandlerKeys == NodeTypes \cup {ALL_NODES}
NoHandlers == [key \in HandlerKeys |-> <<>>]

RECURSIVE CountCases(_)
CountCases(groups) ==
    IF groups = <<>> THEN 0
    ELSE Len(Head(groups).cases) + CountCases(Tail(groups))

RECURSIVE SumOver(_, _)
SumOver(table, keys) ==
    IF keys = {} THEN 0
    ELSE LET key == CHOOSE k \in keys : TRUE
         IN  CountCases(table[key]) + SumOver(table, keys \ {key})

\* the number of descriptors a table holds
TableSize(table) == SumOver(table, HandlerKeys)

\* .setdefault(condition, []).append(case) on the groups of one key
AppendCase(groups, condition, case) ==
    IF \E i \in 1..Len(groups) : groups[i].condition = condition
    THEN [i \in 1..Len(groups) |->
            IF groups[i].condition = condition
            THEN [groups[i] EXCEPT !.cases = Append(@, case)]
            ELSE groups[i]]
    ELSE Append(groups, [condition |-> condition, cases |-> <<case>>])

\* Protocol.register_handler on a table: the table it leaves and what it raises
RegisterHandlerResult(table, function, node_cls, responder_cls, status, condition, pass_protocol) ==
    IF responder_cls = ALL_NODES
    THEN [table |-> table, raised |-> "ValueError"]
    ELSE [table |-> [table EXCEPT ![node_cls] =
                        AppendCase(@, condition,
                                   Handler(function, responder_cls, status,
                                           pass_protocol))],
          raised |-> None]

\* a bidirectional registration whose second call repeats the first
RegisterBidirectionalSame(table, function, node_cls, responder_cls, status, condition) ==
    LET first == RegisterHandlerResult(table, function, node_cls,
                                       responder_cls, status, condition, TRUE)
    IN  IF first.raised # None THEN first
        ELSE RegisterHandlerResult(first.table, function, node_cls,
                                   responder_cls, status, condition, TRUE)

\* Protocol.register_bidirectional_handler on a table: two register_handler
\* calls in a row, the second with the two types swapped
RegisterBidirectionalResult(table, function, node_cls, responder_cls, status, condition) ==
    LET first == RegisterHandlerResult(table, function, node_cls,
                                       responder_cls, status, condition, TRUE)
    IN  IF first.raised # None THEN first
        ELSE RegisterHandlerResult(first.table, function, responder_cls,
                                   node_cls, status, condition, TRUE)

(***************************************************************************)
(* Protocol.handle, Protocol.call_handlers, Protocol.call_handler          *)
(***************************************************************************)
\* what a bound function may do when called: return a value, or raise
Outcomes == Values \cup {"raise"}

\* the cases of the groups of one key whose condition passes, in dict order
RECURSIVE PassingCases(_, _, _)
PassingCases(groups, config, node) ==
    IF groups = <<>> THEN <<>>
    ELSE LET condition == Head(groups).condition
             passes == IF condition = NoCondition THEN TRUE
                       ELSE check(condition, config, node)
         IN  (IF passes THEN Head(groups).cases ELSE <<>>)
             \o PassingCases(Tail(groups), config, node)

RECURSIVE PushAll(_, _)
PushAll(handlers, cases) ==
    IF cases = <<>> THEN handlers
    ELSE PushAll(heappush(handlers, Head(cases)), Tail(cases))

\* a collection that also takes the groups of the base type Command
CollectHandlersOfBase(table, config, node) ==
    PushAll(<<>>, PassingCases(table[node.type], config, node)
                  \o PassingCases(table["Command"], config, node)
                  \o PassingCases(table[ALL_NODES], config, node))

\* the list handle builds: the groups of type(node), then those of ALL_NODES
CollectHandlers(table, config, node) ==
    PushAll(<<>>, PassingCases(table[node.type], config, node)
                  \o PassingCases(table[ALL_NODES], config, node))

\* Protocol.call_handler with an error in the handler resetting the accumulator
call_handler_reset(value, handler, protocol, node, outcome) ==
    LET call == [function |-> handler.function,
                 status |-> handler.status,
                 args |-> HandlerArgs(handler, value, protocol, node),
                 previous_value |-> value,
                 outcome |-> outcome]
    IN  IF outcome = "raise"
        THEN [new_value |-> None, on_error |-> 1, raised |-> None,
              call |-> call]
        ELSE [new_value |-> outcome, on_error |-> 0, raised |-> None,
              call |-> call]

\* Protocol.call_handler with the first value returned kept as the accumulator
call_handler_first(value, handler, protocol, node, outcome) ==
    LET call == [function |-> handler.function,
                 status |-> handler.status,
                 args |-> HandlerArgs(handler, value, protocol, node),
                 previous_value |-> value,
                 outcome |-> outcome]
    IN  IF outcome = "raise" \/ value # None
        THEN [new_value |-> value,
              on_error |-> IF outcome = "raise" THEN 1 ELSE 0,
              raised |-> None, call |-> call]
        ELSE [new_value |-> outcome, on_error |-> 0, raised |-> None,
              call |-> call]

\* what calling handler.function(*args) does.  A function that handle
\* replaced by the bound handle of a child takes the node alone, so any
\* further argument is a TypeError; called with the node it returns None,
\* as handle does on each of its paths (the child types hold no handlers, so
\* the call reaches no function of its own)
CallOutcome(handler, args, outcome) ==
    IF handler.function \in ChildInstances
    THEN IF Len(args) = 1 THEN None ELSE "raise"
    ELSE outcome

\* Protocol.call_handler: one call, its new accumulator, its error report and
\* the exception that leaves it (none: except Exception catches the handler's)
call_handler(value, handler, protocol, node, outcome) ==
    LET args == HandlerArgs(handler, value, protocol, node)
        result == CallOutcome(handler, args, outcome)
        call == [function |-> handler.function,
                 status |-> handler.status,
                 args |-> args,
                 previous_value |-> value,
                 outcome |-> result]
    IN  IF result = "raise"
        THEN [new_value |-> value, on_error |-> 1, raised |-> None,
              call |-> call]
        ELSE [new_value |-> result, on_error |-> 0, raised |-> None,
              call |-> call]

\* Protocol.call_handlers: the list is walked front to back; an exception
\* that leaves call_handler ends the walk
RECURSIVE call_handlers(_, _, _, _, _, _)
call_handlers(protocol, node, handlers, out, i, acc) ==
    IF i > Len(handlers) \/ acc.raised # None THEN acc
    ELSE LET r == call_handler(acc.value, handlers[i], protocol, node, out[i])
         IN  call_handlers(protocol, node, handlers, out, i + 1,
                           [value |-> r.new_value,
                            calls |-> Append(acc.calls, r.call),
                            on_error |-> acc.on_error + r.on_error,
                            raised |-> r.raised])

\* what a call leaves in last
Result(op, protocol, node, args, handlers, calls, on_error, on_unknown_case, raised) ==
    [op |-> op, protocol |-> protocol, node |-> node, args |-> args,
     handlers |-> handlers, calls |-> calls, on_error |-> on_error,
     on_unknown_case |-> on_unknown_case, raised |-> raised]

NoArgs == <<>>

\* the guards of handle that skip the membership test of node.registry
EarlyReturnAlways(protocol, node) ==
    IF protocols[protocol]._aborted THEN "aborted" ELSE None

\* the guards that open handle: why it returns before collecting handlers
EarlyReturn(protocol, node) ==
    IF protocols[protocol]._aborted THEN "aborted"
    ELSE IF protocol \notin members[registry[node.type]] THEN "unknown"
    ELSE None

\* the function of a case dict after handle popped it and failed to put it back
Popped == "popped"

\* the body of handle's innermost loop on one case dict, which it changes in
\* place: function = case.pop('function'); a Protocol subclass is replaced by
\* self.children[function].handle and pass_protocol by False; case['function']
\* = function
RewriteCase(case, protocol) ==
    IF case.function = Popped
    THEN [case |-> case, raised |-> "KeyError"]
    ELSE IF case.function \in ProtocolTypes
    THEN IF children[protocol][case.function] = None
         THEN [case |-> [case EXCEPT !.function = Popped],
               raised |-> "KeyError"]
         ELSE [case |-> [case EXCEPT
                            !.function = children[protocol][case.function],
                            !.pass_protocol = FALSE],
               raised |-> None]
    ELSE [case |-> case, raised |-> None]

RECURSIVE RewriteCases(_, _, _)
RewriteCases(cases, protocol, i) ==
    IF i > Len(cases) THEN [cases |-> cases, raised |-> None]
    ELSE LET r == RewriteCase(cases[i], protocol)
             next == [cases EXCEPT ![i] = r.case]
         IN  IF r.raised # None THEN [cases |-> next, raised |-> r.raised]
             ELSE RewriteCases(next, protocol, i + 1)

\* the groups of one key after handle's loop over them
RECURSIVE RewriteGroups(_, _, _, _, _)
RewriteGroups(groups, protocol, config, node, i) ==
    IF i > Len(groups) THEN [groups |-> groups, raised |-> None]
    ELSE LET condition == groups[i].condition
             passes == IF condition = NoCondition THEN TRUE
                       ELSE check(condition, config, node)
             r == RewriteCases(groups[i].cases, protocol, 1)
             next == [groups EXCEPT ![i].cases = r.cases]
         IN  IF ~passes
             THEN RewriteGroups(groups, protocol, config, node, i + 1)
             ELSE IF r.raised # None
             THEN [groups |-> next, raised |-> r.raised]
             ELSE RewriteGroups(next, protocol, config, node, i + 1)

\* self._handlers after handle's two loops, and the KeyError that ends them
RewriteTable(table, protocol, config, node) ==
    LET first == RewriteGroups(table[node.type], protocol, config, node, 1)
        second == RewriteGroups(table[ALL_NODES], protocol, config, node, 1)
    IN  IF first.raised # None
        THEN [table |-> [table EXCEPT ![node.type] = first.groups],
              raised |-> first.raised]
        ELSE [table |-> [table EXCEPT ![node.type] = first.groups,
                                      ![ALL_NODES] = second.groups],
              raised |-> second.raised]

\* the table of the type of an instance as handle(node) leaves it
HandledTable(protocol, node) ==
    RewriteTable(_handlers[protocols[protocol].cls], protocol,
                 protocols[protocol]._config, node)

\* the handlers handle(node) passes to call_handlers (none when it returns
\* early or is left by an exception)
HandlersOf(protocol, node) ==
    IF EarlyReturn(protocol, node) # None THEN <<>>
    ELSE IF HandledTable(protocol, node).raised # None THEN <<>>
    ELSE CollectHandlers(HandledTable(protocol, node).table,
                         protocols[protocol]._config, node)

\* Protocol.handle from its guards, the table its loops leave and the list
\* they build
HandleWith(protocol, node, early, rewritten, handlers, out) ==
    IF early = "aborted"
    THEN Result("handle", protocol, node, NoArgs, <<>>, <<>>, 0, 0, None)
    ELSE IF early = "unknown"
    THEN Result("handle", protocol, node, NoArgs, <<>>, <<>>, 0, 1, None)
    ELSE IF rewritten.raised # None
    THEN Result("handle", protocol, node, NoArgs, <<>>, <<>>, 0, 0,
                rewritten.raised)
    ELSE LET r == call_handlers(protocol, node, handlers, out, 1,
                                [value |-> None, calls |-> <<>>,
                                 on_error |-> 0, raised |-> None])
         IN  Result("handle", protocol, node, NoArgs, handlers, r.calls,
                    r.on_error, 0, r.raised)

\* Protocol.handle as a whole
HandleResult(protocol, node, out) ==
    HandleWith(protocol, node, EarlyReturn(protocol, node),
               HandledTable(protocol, node), HandlersOf(protocol, node), out)

\* outcomes: what the bound functions may do in this call
handle(protocol, node, outcomes) ==
    /\ protocols[protocol].cls # None
    /\ \E early \in {EarlyReturn(protocol, node)},
          rewritten \in {HandledTable(protocol, node)},
          handlers \in {HandlersOf(protocol, node)} :
           /\ \E out \in [1..Len(handlers) -> outcomes] :
                  last' = HandleWith(protocol, node, early, rewritten,
                                     handlers, out)
           /\ _handlers' = IF early # None THEN _handlers
                           ELSE [_handlers EXCEPT ![protocols[protocol].cls] =
                                    rewritten.table]
    /\ UNCHANGED <<_registry, protocols, registry, members>>
    /\ UNCHANGED childVars
    /\ UNCHANGED treeVars

(***************************************************************************)
(* Protocol.register_handler, Protocol.register_bidirectional_handler      *)
(***************************************************************************)
register_handler(cls, function, node_cls, responder_cls, status, condition, pass_protocol) ==
    LET r == RegisterHandlerResult(_handlers[cls], function, node_cls,
                                   responder_cls, status, condition,
                                   pass_protocol)
    IN  /\ TableSize(_handlers[cls]) < MaxHandlers
        /\ _handlers' = [_handlers EXCEPT ![cls] = r.table]
        /\ last' = Result("register_handler", cls, NoNode,
                          [function |-> function, node_cls |-> node_cls,
                           responder_cls |-> responder_cls],
                          <<>>, <<>>, 0, 0, r.raised)
        /\ UNCHANGED <<_registry, protocols, registry, members>>
        /\ UNCHANGED childVars
        /\ UNCHANGED treeVars

register_bidirectional_handler(cls, function, node_cls, responder_cls, status, condition) ==
    LET r == RegisterBidirectionalResult(_handlers[cls], function, node_cls,
                                         responder_cls, status, condition)
    IN  /\ TableSize(_handlers[cls]) + 2 <= MaxHandlers
        /\ _handlers' = [_handlers EXCEPT ![cls] = r.table]
        /\ last' = Result("register_bidirectional_handler", cls, NoNode,
                          [function |-> function, node_cls |-> node_cls,
                           responder_cls |-> responder_cls],
                          <<>>, <<>>, 0, 0, r.raised)
        /\ UNCHANGED <<_registry, protocols, registry, members>>
        /\ UNCHANGED childVars
        /\ UNCHANGED treeVars

(***************************************************************************)
(* Protocol.register                                                       *)
(***************************************************************************)
\* dict[key] = value on an insertion-ordered dict of (node_cls, condition)
DictSet(entries, node_cls, condition) ==
    IF \E i \in 1..Len(entries) : entries[i].node_cls = node_cls
    THEN [i \in 1..Len(entries) |->
            IF entries[i].node_cls = node_cls
            THEN [node_cls |-> node_cls, condition |-> condition]
            ELSE entries[i]]
    ELSE Append(entries, [node_cls |-> node_cls, condition |-> condition])

\* a register that stores whatever condition it is given
RegisterUnchecked(entries, registered, condition) ==
    IF registered \in NodeTypes
    THEN [entries |-> DictSet(entries, registered, condition),
          raised |-> None]
    ELSE [entries |-> entries, raised |-> "TypeError"]

\* Protocol.register on one _registry: issubclass(registered, Node) raises
\* TypeError for ALL_NODES, which is no class
RegisterResult(entries, registered, condition) ==
    IF registered \in NodeTypes
    THEN LET checks_node == IF condition # NoCondition
                            THEN condition.checks_node ELSE FALSE
         IN  IF checks_node
             THEN [entries |-> entries, raised |-> "ValueError"]
             ELSE [entries |-> DictSet(entries, registered, condition),
                   raised |-> None]
    ELSE [entries |-> entries, raised |-> "TypeError"]

register(cls, registered, condition) ==
    LET r == RegisterResult(_registry[cls], registered, condition)
    IN  /\ _registry' = [_registry EXCEPT ![cls] = r.entries]
        /\ last' = Result("register", cls, NoNode,
                          [registered |-> registered, condition |-> condition],
                          <<>>, <<>>, 0, 0, r.raised)
        /\ UNCHANGED <<_handlers, protocols, registry, members>>
        /\ UNCHANGED childVars
        /\ UNCHANGED treeVars

(***************************************************************************)
(* Node.on_register, Protocol.configure, Protocol.__init__                 *)
(***************************************************************************)
\* Node.on_register(protocol_cls=protocol, add_protocol=add) on the WeakSets
on_register(mem, node_cls, protocol, add_protocol) ==
    [mem EXCEPT ![registry[node_cls]] =
        IF add_protocol THEN @ \cup {protocol} ELSE @ \ {protocol}]

\* the loop of configure over _registry.items(); ALL_NODES has no on_register
RECURSIVE RegistryLoop(_, _, _, _, _)
RegistryLoop(protocol, config, entries, mem, aborted) ==
    IF entries = <<>>
    THEN [members |-> mem, _aborted |-> aborted, raised |-> None]
    ELSE LET node_cls == Head(entries).node_cls
             condition == Head(entries).condition
             abort_on_check_failure == node_cls = ALL_NODES
         IN  IF condition # NoCondition /\ CheckRaises(condition, config, NoNode)
             THEN [members |-> mem, _aborted |-> aborted,
                   raised |-> "AttributeError"]
             ELSE
             LET passes == IF condition = NoCondition THEN TRUE
                           ELSE check(condition, config, NoNode)
             IN  IF node_cls \notin NodeTypes
                 THEN [members |-> mem, _aborted |-> aborted,
                       raised |-> "AttributeError"]
                 ELSE IF passes
                 THEN RegistryLoop(protocol, config, Tail(entries),
                                   on_register(mem, node_cls, protocol, TRUE),
                                   aborted)
                 ELSE IF abort_on_check_failure
                 THEN [members |-> on_register(mem, node_cls, protocol, FALSE),
                       _aborted |-> TRUE, raised |-> None]
                 ELSE RegistryLoop(protocol, config, Tail(entries),
                                   on_register(mem, node_cls, protocol, FALSE),
                                   aborted)

\* dict.update: the keys the call supplies overwrite, the others stay
Update(config, overrides) ==
    [key \in ConfigKeys |->
        IF overrides[key] # None THEN overrides[key] ELSE config[key]]

EmptyConfig == [key \in ConfigKeys |-> None]

\* the child instance configure creates for an instance
ChildName(protocol) == IF protocol = "p1" THEN "c1" ELSE "c2"

\* the loop of configure over self._children: a child class with no instance
\* in self.children yet is constructed as child_cls(self, **self._config),
\* whose __init__ runs the child's own configure; the child types of the
\* model have no child types of their own
RECURSIVE ChildrenLoop(_, _, _, _)
ChildrenLoop(protocol, config, classes, st) ==
    IF classes = <<>> \/ st.raised # None THEN st
    ELSE LET child_cls == Head(classes)
             child == ChildName(protocol)
             r == RegistryLoop(child, config, _registry[child_cls],
                               st.members, FALSE)
         IN  IF st.children[protocol][child_cls] # None
             THEN ChildrenLoop(protocol, config, Tail(classes), st)
             ELSE IF r.raised # None
             THEN [st EXCEPT !.members = r.members, !.raised = r.raised]
             ELSE ChildrenLoop(protocol, config, Tail(classes),
                      [protocols |-> [st.protocols EXCEPT ![child] =
                                         [cls |-> child_cls,
                                          _config |-> config,
                                          _aborted |-> FALSE]],
                       members |-> r.members,
                       children |-> [st.children EXCEPT
                                        ![protocol][child_cls] = child],
                       raised |-> None])

\* Protocol.configure(**overrides) on a constructed instance
configure(protocol, overrides) ==
    LET self == protocols[protocol]
        config == Update(self._config, overrides)
        r == RegistryLoop(protocol, config, _registry[self.cls], members,
                          self._aborted)
        c == ChildrenLoop(protocol, config, _children[self.cls],
                 [protocols |-> [protocols EXCEPT
                                    ![protocol]._config = config,
                                    ![protocol]._aborted = r._aborted],
                  members |-> r.members,
                  children |-> children,
                  raised |-> r.raised])
    IN  /\ self.cls # None
        /\ protocols' = c.protocols
        /\ members' = c.members
        /\ children' = c.children
        /\ last' = Result("configure", protocol, NoNode,
                          [cls |-> self.cls, config |-> config],
                          <<>>, <<>>, 0, 0, c.raised)
        /\ UNCHANGED <<_registry, _handlers, registry, _children>>
        /\ UNCHANGED treeVars

\* cls(**overrides): __init__ runs configure and then sets _aborted = False;
\* when configure raises, no instance comes to exist
construct(protocol, cls, overrides) ==
    LET config == Update(EmptyConfig, overrides)
        r == RegistryLoop(protocol, config, _registry[cls], members, FALSE)
        c == ChildrenLoop(protocol, config, _children[cls],
                 [protocols |-> [protocols EXCEPT ![protocol] =
                                    [cls |-> cls, _config |-> config,
                                     _aborted |-> FALSE]],
                  members |-> r.members,
                  children |-> children,
                  raised |-> r.raised])
    IN  /\ protocols[protocol].cls = None
        /\ IF c.raised = None
           THEN /\ protocols' = c.protocols
                /\ members' = c.members
                /\ children' = c.children
           ELSE UNCHANGED <<protocols, members, children>>
        /\ last' = Result("__init__", protocol, NoNode,
                          [cls |-> cls, config |-> config],
                          <<>>, <<>>, 0, 0, c.raised)
        /\ UNCHANGED <<_registry, _handlers, registry, _children>>
        /\ UNCHANGED treeVars

NoProtocol == [cls |-> None, _config |-> EmptyConfig, _aborted |-> FALSE]
NoCall == Result(None, None, NoNode, NoArgs, <<>>, <<>>, 0, 0, None)

\* the WeakSets after snss/protocol.py is imported: every Node subclass gets
\* its own in __init_subclass__, and SessionCommands.case(...) makes the
\* registry of IDAndIndex name the one of SessionCommands
ImportedRegistry ==
    [type \in NodeTypes |->
        IF type = "IDAndIndex" THEN "SessionCommands" ELSE type]

(***************************************************************************)
(* snss/lib/node.py (Node, Tree) with the catalogue of snss/protocol.py.   *)
(* Bytes are sequences of cells, one cell a byte; a field's value is held  *)
(* as the bytes its codec builds it to.  An instance is a record of its    *)
(* type, its _data dict, its buffer (the cache) and its origin.            *)
(***************************************************************************)
\* None where bytes may stand
NoBytes == <<None>>
MissingSwitchKey == <<"MissingSwitchKey">>

\* the record instances of a run
Objects == {"n1"}

\* a field of a Struct: its name and its width in bytes, or GreedyBytes
Field(name, width) == [name |-> name, width |-> width, greedy |-> FALSE]
Greedy(name) == [name |-> name, width |-> 0, greedy |-> TRUE]

\* the manager of each type: Int16un is 2 bytes wide, Int8un 1, Int32un 4
manager(type) ==
    CASE type = "SessionCommands" ->
            <<Field("size", 2), Field("type", 1), Greedy("buffer")>>
      [] type = "IDAndIndex" -> <<Field("id", 4), Field("index", 4)>>
      [] OTHER -> <<Greedy("buffer")>>

case_key(type) == IF type = "SessionCommands" THEN "type" ELSE None
data_key(type) == IF type = "SessionCommands" THEN "buffer" ELSE None
has_switch(type) == TRUE

NoSpec == [tree |-> None, key |-> NoBytes]
EmptyDict == [key \in {} |-> NoBytes]

\* the class attributes after snss/protocol.py is imported; of the fifteen
\* cases of SessionCommands the model keeps two, both of IDAndIndex, whose
\* switch_spec is the one the outermost decorator, case(0), set
ImportedNodes ==
    [type \in NodeTypes |->
        IF type = "SessionCommands"
        THEN (<<"0">> :> "IDAndIndex") @@ (<<"2">> :> "IDAndIndex")
        ELSE EmptyDict]

ImportedSwitchSpec ==
    [type \in NodeTypes |->
        IF type = "IDAndIndex"
        THEN [tree |-> "SessionCommands", key |-> <<"0">>]
        ELSE NoSpec]

ImportedDefaultNode ==
    [type \in NodeTypes |-> IF type = "SessionCommands" THEN "Command" ELSE None]

NoObject == [type |-> None, _data |-> EmptyDict, buffer |-> NoBytes,
             origin |-> NoBytes]

\* cls(**data), cls.from_dict(data)
from_dict(type, data) ==
    [type |-> type, _data |-> data, buffer |-> NoBytes, origin |-> NoBytes]

\* dict.update and the del of discard_keys
DictUpdate(data, changes) ==
    [key \in DOMAIN data \cup DOMAIN changes |->
        IF key \in DOMAIN changes THEN changes[key] ELSE data[key]]

DictDiscard(data, keys) == [key \in DOMAIN data \ keys |-> data[key]]

\* Struct.build: every field must be there, at its width
CanBuild(fields, data) ==
    \A i \in 1..Len(fields) :
        /\ fields[i].name \in DOMAIN data
        /\ fields[i].greedy \/ Len(data[fields[i].name]) = fields[i].width

RECURSIVE Build(_, _)
Build(fields, data) ==
    IF fields = <<>> THEN <<>>
    ELSE data[Head(fields).name] \o Build(Tail(fields), data)

\* Struct.parse: the fixed fields must be there; bytes left over are ignored
RECURSIVE FixedWidth(_)
FixedWidth(fields) ==
    IF fields = <<>> THEN 0
    ELSE Head(fields).width + FixedWidth(Tail(fields))

CanParse(fields, buffer) == Len(buffer) >= FixedWidth(fields)

RECURSIVE Parse(_, _)
Parse(fields, buffer) ==
    IF fields = <<>> THEN ("_io" :> <<"io">>)
    ELSE LET n == IF Head(fields).greedy THEN Len(buffer)
                  ELSE Head(fields).width
         IN  (Head(fields).name :> SubSeq(buffer, 1, n))
             @@ Parse(Tail(fields), SubSeq(buffer, n + 1, Len(buffer)))

\* an update that keeps the cache
Node_update_keep(self) == [self EXCEPT !.origin = NoBytes]

\* Node.update
Node_update(self) == [self EXCEPT !.buffer = NoBytes, !.origin = NoBytes]

\* Command.update: Node.update, then discard_keys('_io')
update(self) ==
    [Node_update(self) EXCEPT !._data = DictDiscard(@, {"_io"})]

\* Node.feed
Node_feed(self, changes) ==
    update([self EXCEPT !._data = DictUpdate(@, changes)])

\* Node.dump: the cache, or _dump and the cache set
Node_dump(self) ==
    IF self.buffer # NoBytes
    THEN [self |-> self, result |-> self.buffer, encoded |-> FALSE,
          raised |-> None]
    ELSE IF CanBuild(manager(self.type), self._data)
    THEN LET built == Build(manager(self.type), self._data)
         IN  [self |-> [self EXCEPT !.buffer = built], result |-> built,
              encoded |-> TRUE, raised |-> None]
    ELSE [self |-> self, result |-> NoBytes, encoded |-> TRUE,
          raised |-> "KeyError"]

\* Node.read: _read, then feed and the origin set
Node_read(self, buffer) ==
    IF CanParse(manager(self.type), buffer)
    THEN [self |-> [Node_feed(self, Parse(manager(self.type), buffer))
                       EXCEPT !.origin = buffer],
          raised |-> None]
    ELSE [self |-> self, raised |-> "StreamError"]

\* Tree.set_switch; a key of None is a key of the dict like any other
Tree_set_switch(self, key) ==
    [self EXCEPT !._data = DictUpdate(@, (case_key(self.type) :> key))]

\* Tree.get_switch
Tree_get_switch(self) ==
    IF case_key(self.type) = None
    THEN [key |-> MissingSwitchKey, raised |-> None]
    ELSE IF case_key(self.type) \in DOMAIN self._data
    THEN [key |-> self._data[case_key(self.type)], raised |-> None]
    ELSE [key |-> NoBytes, raised |-> "KeyError"]

\* Tree.switch: the class it returns (None for no class), the key, the error
Tree_switch(self) ==
    LET got == Tree_get_switch(self)
        table == nodes[self.type]
        node == IF got.key \in DOMAIN table THEN table[got.key] ELSE None
    IN  IF got.raised # None
        THEN [value |-> None, key |-> got.key, raised |-> got.raised]
        ELSE IF got.key = MissingSwitchKey
        THEN [value |-> None, key |-> got.key, raised |-> None]
        ELSE IF node = None /\ default_node[self.type] = None
        THEN [value |-> None, key |-> got.key,
              raised |-> "NotImplementedError"]
        ELSE [value |-> node, key |-> got.key, raised |-> None]

\* Tree.dump: the own bytes, wrapped in the parent tree unless standalone
RECURSIVE Tree_dump(_, _)
Tree_dump(self, standalone) ==
    LET spec == switch_spec[self.type]
        wraps == ~standalone /\ spec.tree # None /\ has_switch(self.type)
        own == Node_dump(self)
    IN  IF own.raised # None \/ ~wraps THEN own
        ELSE IF case_key(self.type) = None
        THEN \* cls(**{None: buffer}): keywords must be strings
             [self |-> own.self, result |-> NoBytes, encoded |-> own.encoded,
              raised |-> "TypeError"]
        ELSE LET tree == Tree_set_switch(
                            from_dict(spec.tree,
                                      (case_key(self.type) :> own.result)),
                            spec.key)
                 outer == Tree_dump(tree, FALSE)
             IN  [self |-> own.self, result |-> outer.result,
                  encoded |-> own.encoded, raised |-> outer.raised]

\* Tree.read: Node.read, then the variant read from the payload, fed back
RECURSIVE Tree_read(_, _, _)
Tree_read(self, buffer, basic) ==
    LET base == Node_read(self, buffer)
        chosen == Tree_switch(base.self)
    IN  IF base.raised # None
        THEN [self |-> self, node |-> self, raised |-> base.raised]
        ELSE IF basic
        THEN [self |-> base.self, node |-> base.self, raised |-> None]
        ELSE IF chosen.raised # None
        THEN [self |-> base.self, node |-> base.self, raised |-> chosen.raised]
        ELSE IF chosen.value = None
        THEN [self |-> base.self, node |-> base.self, raised |-> None]
        ELSE IF data_key(self.type) \notin DOMAIN base.self._data
        THEN [self |-> base.self, node |-> base.self, raised |-> "KeyError"]
        ELSE LET inner == Tree_read(from_dict(chosen.value, EmptyDict),
                                    base.self._data[data_key(self.type)],
                                    FALSE)
             IN  IF inner.raised # None
                 THEN [self |-> base.self, node |-> base.self,
                       raised |-> inner.raised]
                 ELSE [self |-> Node_feed(base.self,
                                          (case_key(inner.node.type)
                                              :> inner.node.origin)),
                       node |-> inner.node, raised |-> None]

\* what a call on a record leaves in last
NodeResult(op, object, args, result, encoded, raised) ==
    [op |-> op, object |-> object, args |-> args, result |-> result,
     encoded |-> encoded, raised |-> raised]

\* object = cls(**data)
new(object, type, data) ==
    /\ objects' = [objects EXCEPT ![object] = from_dict(type, data)]
    /\ last' = NodeResult("new", object, [type |-> type], NoBytes, FALSE, None)
    /\ UNCHANGED <<dispatchVars, nodes, switch_spec, default_node>>

feed(object, changes) ==
    /\ objects[object].type # None
    /\ objects' = [objects EXCEPT ![object] = Node_feed(@, changes)]
    /\ last' = NodeResult("feed", object, [changes |-> changes], NoBytes,
                          FALSE, None)
    /\ UNCHANGED <<dispatchVars, nodes, switch_spec, default_node>>

dump(object, standalone) ==
    LET r == Tree_dump(objects[object], standalone)
    IN  /\ objects[object].type # None
        /\ objects' = [objects EXCEPT ![object] = r.self]
        /\ last' = NodeResult("dump", object, [standalone |-> standalone],
                              r.result, r.encoded, r.raised)
        /\ UNCHANGED <<dispatchVars, nodes, switch_spec, default_node>>

read(object, buffer, basic) ==
    LET r == Tree_read(objects[object], buffer, basic)
    IN  /\ objects[object].type # None
        /\ objects' = [objects EXCEPT ![object] = r.self]
        /\ last' = NodeResult("read", object,
                              [buffer |-> buffer, basic |-> basic],
                              r.node, FALSE, r.raised)
        /\ UNCHANGED <<dispatchVars, nodes, switch_spec, default_node>>

switch(object) ==
    LET r == Tree_switch(objects[object])
    IN  /\ objects[object].type # None
        /\ last' = NodeResult("switch", object, [key |-> r.key], r.value,
                              FALSE, r.raised)
        /\ UNCHANGED <<dispatchVars, treeVars>>

\* no Protocol subclass is declared with extends=, as in snss/protocol.py
NoChildren == [cls \in ProtocolTypes |-> None]

InitChildless ==
    /\ _children = [cls \in ProtocolTypes |-> <<>>]
    /\ children = [protocol \in Instances |-> NoChildren]

\* the class attributes and instances of the record layer, as imported
InitCatalogue ==
    /\ nodes = ImportedNodes
    /\ switch_spec = ImportedSwitchSpec
    /\ default_node = ImportedDefaultNode
    /\ objects = [object \in Objects |-> NoObject]

(***************************************************************************)
(* SpecDispatch: one constructed dispatcher that is interested in          *)
(* SessionCommands and its variants; handlers are registered for the exact *)
(* type and for the wildcard, without and with a condition on the record,  *)
(* at every priority, and records are handled.                             *)
(***************************************************************************)
ConfigOf(mode) == [key \in ConfigKeys |-> mode]

InitDispatch ==
    /\ _registry = [cls \in ProtocolTypes |->
                      IF cls = "Sessions"
                      THEN <<[node_cls |-> "SessionCommands",
                              condition |-> NoCondition]>>
                      ELSE <<>>]
    /\ _handlers = [cls \in ProtocolTypes |-> NoHandlers]
    /\ protocols = [protocol \in Instances |->
                      IF protocol = "p1"
                      THEN [cls |-> "Sessions", _config |-> EmptyConfig,
                            _aborted |-> FALSE]
                      ELSE NoProtocol]
    /\ registry = ImportedRegistry
    /\ members = [type \in NodeTypes |->
                    IF type = "SessionCommands" THEN {"p1"} ELSE {}]
    /\ last = NoCall
    /\ InitCatalogue
    /\ InitChildless

RegisterHandlerDispatch ==
    \E node_cls \in {"IDAndIndex", ALL_NODES}, status \in Status,
       condition \in {NoCondition, has("x", "a")} :
        register_handler("Sessions", "f", node_cls, None, status, condition,
                         TRUE)

HandleDispatch ==
    \E x \in Values : handle("p1", NodeOf("IDAndIndex", x), {"a"})

NextDispatch == RegisterHandlerDispatch \/ HandleDispatch

SpecDispatch == InitDispatch /\ [][NextDispatch]_vars

(***************************************************************************)
(* C1: one handle call invokes the eligible handlers in non-increasing     *)
(* priority order: no handler runs after one of a strictly lower Status.   *)
(***************************************************************************)
C1_PriorityOrder ==
    last.op = "handle" =>
        \A i, j \in 1..Len(last.calls) :
            i < j => last.calls[i].status >= last.calls[j].status

(***************************************************************************)
(* SpecFold: the same dispatcher; the registered functions are a plain one *)
(* and a reducer, and each call of one returns a value or raises.          *)
(***************************************************************************)
RegisterHandlerFold ==
    \E function \in Functions, status \in {NORMAL, URGENT} :
        register_handler("Sessions", function, "IDAndIndex", None, status,
                         NoCondition, TRUE)

HandleFold == handle("p1", NodeOf("IDAndIndex", "a"), Outcomes)

NextFold == RegisterHandlerFold \/ HandleFold

SpecFold == InitDispatch /\ [][NextFold]_vars

\* the calls of the last handle in which the handler raised
Raising(calls) == {i \in 1..Len(calls) : calls[i].outcome = "raise"}

(***************************************************************************)
(* C2: when a handler raises during handle, the error does not leave       *)
(* handle, on_error is invoked once for that handler, the next handler is  *)
(* called with the accumulator the failing one was called with, and every  *)
(* handler of the chain is still invoked.                                  *)
(***************************************************************************)
C2_FaultIsolation ==
    last.op = "handle" /\ Raising(last.calls) # {} =>
        /\ last.raised = None
        /\ last.on_error = Cardinality(Raising(last.calls))
        /\ Len(last.calls) = Len(last.handlers)
        /\ \A i \in Raising(last.calls) :
              i < Len(last.calls) =>
                  last.calls[i + 1].previous_value
                      = last.calls[i].previous_value

\* a handler raised after another had returned a value, and one more followed
C2_Witness ==
    /\ last.op = "handle"
    /\ \E i \in Raising(last.calls) :
          /\ last.calls[i].previous_value # None
          /\ i < Len(last.calls)

(***************************************************************************)
(* SpecGate: the registry of a dispatcher type and the gates it opens.     *)
(* Sessions holds one handler for IDAndIndex and one for the wildcard.     *)
(* register cannot store a guard for ALL_NODES (issubclass raises), so the *)
(* guard configure looks for (node_cls is ALL_NODES) is in _registry only  *)
(* when it was put there directly: the run starts without one, or with one *)
(* put as the only entry or after an entry for Command, and either before  *)
(* or after the instance p1 was constructed.                               *)
(***************************************************************************)
WildcardGuard == [node_cls |-> ALL_NODES, condition |-> configured("mode", "a")]

GateHandlers ==
    [NoHandlers EXCEPT
        !["IDAndIndex"] = <<[condition |-> NoCondition,
                             cases |-> <<Handler("f", None, NORMAL, TRUE)>>]>>,
        ![ALL_NODES] = <<[condition |-> NoCondition,
                          cases |-> <<Handler("g", None, URGENT, TRUE)>>]>>]

InitGate ==
    /\ \E entries \in {<<>>, <<WildcardGuard>>,
                       <<[node_cls |-> "Command", condition |-> NoCondition],
                         WildcardGuard>>} :
          _registry = [cls \in ProtocolTypes |->
                          IF cls = "Sessions" THEN entries ELSE <<>>]
    /\ _handlers = [cls \in ProtocolTypes |->
                      IF cls = "Sessions" THEN GateHandlers ELSE NoHandlers]
    /\ \E constructed \in BOOLEAN :
          protocols = [protocol \in Instances |->
                          IF protocol = "p1" /\ constructed
                          THEN [cls |-> "Sessions", _config |-> EmptyConfig,
                                _aborted |-> FALSE]
                          ELSE NoProtocol]
    /\ registry = ImportedRegistry
    /\ members = [type \in NodeTypes |-> {}]
    /\ last = NoCall
    /\ InitCatalogue
    /\ InitChildless

GateConditions == {NoCondition, configured("mode", "a"), has("x", "a")}

RegisterGate ==
    \/ \E registered \in {"SessionCommands", "Command", ALL_NODES},
          condition \in GateConditions :
           register("Sessions", registered, condition)
    \/ \E condition \in {NoCondition, has("x", "a")} :
           register("Other", "Command", condition)

ConstructGate ==
    \E mode \in Values \cup {None} : construct("p1", "Sessions", ConfigOf(mode))

ConfigureGate ==
    \E mode \in Values \cup {None} : configure("p1", ConfigOf(mode))

HandleGate ==
    \E type \in {"IDAndIndex", "Command"} :
        handle("p1", NodeOf(type, "a"), {"a"})

NextGate == RegisterGate \/ ConstructGate \/ ConfigureGate \/ HandleGate

SpecGate == InitGate /\ [][NextGate]_vars

\* the guard of the wildcard in the registry of cls fails under config
WildcardGuardFails(cls, config) ==
    \E i \in 1..Len(_registry[cls]) :
        /\ _registry[cls][i].node_cls = ALL_NODES
        /\ _registry[cls][i].condition # NoCondition
        /\ ~check(_registry[cls][i].condition, config, NoNode)

C8_UnknownCase ==
    (last.op = "handle" /\ ~protocols[last.protocol]._aborted) =>
        IF last.protocol \notin members[registry[last.node.type]]
        THEN last.on_unknown_case = 1 /\ last.calls = <<>>
        ELSE last.on_unknown_case = 0

\* an IDAndIndex record, for which two handlers would be eligible, reached a
\* dispatcher outside its interest set
C8_Witness ==
    /\ last.op = "handle"
    /\ last.node.type = "IDAndIndex"
    /\ last.protocol \notin members[registry[last.node.type]]
    /\ _handlers[protocols[last.protocol].cls]["IDAndIndex"] # <<>>
    /\ _handlers[protocols[last.protocol].cls][ALL_NODES] # <<>>
    /\ last.on_unknown_case = 1

\* the entries of a registry, as a set
EntriesOf(entries) == {entries[i] : i \in 1..Len(entries)}

(***************************************************************************)
(* C9: register(record_type, condition) with a condition whose checks_node *)
(* flag is set raises and leaves every registry as it was; without a       *)
(* condition, or with one whose flag is not set, it stores exactly         *)
(* (record_type, condition) in the registry of that dispatcher type.       *)
(***************************************************************************)
C9_Register ==
    [][(last'.op = "register" /\ last'.args.registered \in NodeTypes) =>
        LET cls == last'.protocol
            registered == last'.args.registered
            condition == last'.args.condition
        IN  IF condition.checks_node
            THEN /\ last'.raised = "ValueError"
                 /\ _registry' = _registry
            ELSE /\ last'.raised = None
                 /\ EntriesOf(_registry'[cls]) =
                       {e \in EntriesOf(_registry[cls]) :
                           e.node_cls # registered}
                       \cup {[node_cls |-> registered,
                              condition |-> condition]}
                 /\ \A other \in ProtocolTypes \ {cls} :
                       _registry'[other] = _registry[other]
      ]_vars

\* a condition on the record was refused by a type that holds a guard on its
\* configuration, stored by an earlier register
C9_Witness ==
    /\ last.op = "register"
    /\ last.args.registered \in NodeTypes
    /\ last.args.condition.checks_node
    /\ last.raised = "ValueError"
    /\ \E e \in EntriesOf(_registry[last.protocol]) :
          e.node_cls \in NodeTypes /\ e.condition.kind = "configured"

(***************************************************************************)
(* SpecPeers: one constructed dispatcher that is interested in Command and *)
(* in SessionCommands with its variants; handlers are registered with peer *)
(* types, one by one and for both sides of a pair, and records are         *)
(* handled.  h is registered for the pair of Command and IDAndIndex only,  *)
(* k for pairs with the wildcard on one side.                              *)
(***************************************************************************)
InitPeers ==
    /\ _registry = [cls \in ProtocolTypes |->
                      IF cls = "Sessions"
                      THEN <<[node_cls |-> "SessionCommands",
                              condition |-> NoCondition],
                             [node_cls |-> "Command",
                              condition |-> NoCondition]>>
                      ELSE <<>>]
    /\ _handlers = [cls \in ProtocolTypes |-> NoHandlers]
    /\ protocols = [protocol \in Instances |->
                      IF protocol = "p1"
                      THEN [cls |-> "Sessions", _config |-> EmptyConfig,
                            _aborted |-> FALSE]
                      ELSE NoProtocol]
    /\ registry = ImportedRegistry
    /\ members = [type \in NodeTypes |->
                    IF type \in {"SessionCommands", "Command"}
                    THEN {"p1"} ELSE {}]
    /\ last = NoCall
    /\ InitCatalogue
    /\ InitChildless

PeerTypes == {"Command", "IDAndIndex"}

RegisterHandlerPeers ==
    \E node_cls \in PeerTypes \cup {ALL_NODES},
       responder_cls \in PeerTypes \cup {None, ALL_NODES},
       status \in {NORMAL, URGENT} :
        register_handler("Sessions", "f", node_cls, responder_cls, status,
                         NoCondition, TRUE)

RegisterBidirectionalPeers ==
    \/ \E node_cls \in PeerTypes, responder_cls \in PeerTypes :
          /\ node_cls # responder_cls
          /\ register_bidirectional_handler("Sessions", "h", node_cls,
                                            responder_cls, NORMAL, NoCondition)
    \/ \E node_cls \in PeerTypes \cup {ALL_NODES},
          responder_cls \in PeerTypes \cup {ALL_NODES} :
          /\ ALL_NODES \in {node_cls, responder_cls}
          /\ register_bidirectional_handler("Sessions", "k", node_cls,
                                            responder_cls, NORMAL, NoCondition)

HandlePeers ==
    \E type \in PeerTypes : handle("p1", NodeOf(type, "a"), {"a"})

NextPeers == RegisterHandlerPeers \/ RegisterBidirectionalPeers \/ HandlePeers

SpecPeers == InitPeers /\ [][NextPeers]_vars

\* the descriptors of a table, whatever their key and group
CasesOf(table) ==
    {d \in [key : HandlerKeys, case : UNION {
                {g.cases[i] : i \in 1..Len(g.cases)} :
                    g \in UNION {EntriesOf(table[key]) : key \in HandlerKeys}}] :
        \E g \in EntriesOf(table[d.key]) :
            \E i \in 1..Len(g.cases) : g.cases[i] = d.case}

\* how many descriptors of a table bind the function
Registrations(table, function) ==
    LET Count(key) ==
            LET groups == table[key]
                InGroup(g) ==
                    Cardinality({i \in 1..Len(groups[g].cases) :
                                    groups[g].cases[i].function = function})
                Sum[g \in 0..Len(groups)] ==
                    IF g = 0 THEN 0 ELSE Sum[g - 1] + InGroup(g)
            IN  Sum[Len(groups)]
        Keys == <<"Command", "SessionCommands", "IDAndIndex", ALL_NODES>>
    IN  Count(Keys[1]) + Count(Keys[2]) + Count(Keys[3]) + Count(Keys[4])

Peer(type) == IF type = "Command" THEN "IDAndIndex" ELSE "Command"

(***************************************************************************)
(* C7: after h is registered bidirectionally (once) for two distinct types *)
(* A and B the dispatcher is interested in, handle of an A record invokes  *)
(* h exactly once with peer type B, and handle of a B record invokes h     *)
(* exactly once with peer type A.                                          *)
(***************************************************************************)
C7_Bidirectional ==
    (/\ last.op = "handle"
     /\ Registrations(_handlers["Sessions"], "h") = 2) =>
        LET calls == {i \in 1..Len(last.calls) : last.calls[i].function = "h"}
        IN  /\ Cardinality(calls) = 1
            /\ \A i \in calls :
                  last.calls[i].args
                      = <<last.protocol, last.node.type, Peer(last.node.type)>>

\* h is registered for the pair, and a record of each type was handled
C7_Witness ==
    /\ last.op = "handle"
    /\ Registrations(_handlers["Sessions"], "h") = 2
    /\ last.node.type = "IDAndIndex"
    /\ \E i \in 1..Len(last.calls) :
          /\ last.calls[i].function = "h"
          /\ last.calls[i].args = <<"p1", "IDAndIndex", "Command">>

(***************************************************************************)
(* C10: every registration that would bind the wildcard as a handler's     *)
(* peer type (register_handler with the wildcard as peer, or a             *)
(* bidirectional registration with the wildcard on either side) is         *)
(* rejected and leaves the handler table as it was; no descriptor with the *)
(* wildcard as peer, and no half of a rejected registration, is ever in    *)
(* the table.                                                              *)
(***************************************************************************)
C10_WildcardPeerRejected ==
    [][(\/ /\ last'.op = "register_handler"
           /\ last'.args.responder_cls = ALL_NODES
        \/ /\ last'.op = "register_bidirectional_handler"
           /\ ALL_NODES \in {last'.args.node_cls, last'.args.responder_cls})
       => /\ last'.raised # None
          /\ _handlers' = _handlers
          /\ \A d \in CasesOf(_handlers'["Sessions"]) :
                d.case.responder_cls # ALL_NODES
      ]_vars

(***************************************************************************)
(* SpecNode: one record instance of the catalogue, created, read, fed,     *)
(* dumped and switched in every order.                                     *)
(***************************************************************************)
InitNode ==
    /\ _registry = [cls \in ProtocolTypes |-> <<>>]
    /\ _handlers = [cls \in ProtocolTypes |-> NoHandlers]
    /\ protocols = [protocol \in Instances |-> NoProtocol]
    /\ registry = ImportedRegistry
    /\ members = [type \in NodeTypes |-> {}]
    /\ last = NoCall
    /\ InitCatalogue
    /\ InitChildless

\* the bytes of the field values the runs draw from
IdBytes == <<"1", "0", "0", "0">>
IndexBytes == {<<"2", "0", "0", "0">>, <<"3", "0", "0", "0">>}
SizeBytes == <<"9", "0">>
TagBytes == {<<"0">>, <<"2">>, <<"1">>}

\* the keyword arguments a record is created with
DataMenu(type) ==
    CASE type = "SessionCommands" ->
            {EmptyDict}
            \cup {("size" :> SizeBytes) @@ ("type" :> tag)
                     @@ ("buffer" :> IdBytes \o index) :
                  tag \in TagBytes, index \in IndexBytes}
      [] type = "IDAndIndex" ->
            {EmptyDict}
            \cup {("id" :> IdBytes) @@ ("index" :> index) :
                  index \in IndexBytes}
      [] OTHER -> {EmptyDict, ("buffer" :> IdBytes)}

\* the changes a record is fed
ChangesMenu ==
    {("type" :> tag) : tag \in {<<"0">>, <<"1">>}}
    \cup {("index" :> index) : index \in IndexBytes}
    \cup {("buffer" :> <<>>)}

\* the buffers a record is read from: too short for a header, a header
\* alone, and whole envelopes of a known and of an unknown tag
BufferMenu ==
    {<<>>, SizeBytes \o <<"0">>}
    \cup {SizeBytes \o tag \o IdBytes \o index :
          tag \in {<<"0">>, <<"1">>}, index \in IndexBytes}

NewNode == \E type \in NodeTypes : \E data \in DataMenu(type) :
              new("n1", type, data)
FeedNode == \E changes \in ChangesMenu : feed("n1", changes)
DumpNode == \E standalone \in BOOLEAN : dump("n1", standalone)
ReadNode == \E buffer \in BufferMenu, basic \in BOOLEAN :
               read("n1", buffer, basic)
SwitchNode == switch("n1")

NextNode == NewNode \/ FeedNode \/ DumpNode \/ ReadNode \/ SwitchNode

SpecNode == InitNode /\ [][NextNode]_vars

\* a dump that returns the record's own bytes: standalone, or of a type that
\* is no case of a tree
OwnBytes(call, instances) ==
    \/ call.args.standalone
    \/ switch_spec[instances[call.object].type].tree = None

(***************************************************************************)
(* C4: in every sequence of read, dump and feed calls on a record: right   *)
(* after feed both the cache (buffer) and the origin are absent; a dump of *)
(* the record's own bytes that succeeds returns, and leaves cached, the    *)
(* encoding of the fields the record holds then, never bytes cached before *)
(* a feed; and a dump that follows a successful dump with no call in       *)
(* between returns the same bytes without encoding again.                  *)
(***************************************************************************)
C4_CacheCoherence ==
    [][/\ last'.op = "feed" =>
            /\ objects'[last'.object].buffer = NoBytes
            /\ objects'[last'.object].origin = NoBytes
       /\ (/\ last'.op = "dump"
           /\ OwnBytes(last', objects')
           /\ last'.raised = None) =>
            LET self == objects'[last'.object]
            IN  /\ last'.result = Build(manager(self.type), self._data)
                /\ self.buffer = last'.result
       /\ (/\ last.op = "dump" /\ last'.op = "dump"
           /\ OwnBytes(last, objects) /\ OwnBytes(last', objects')
           /\ last.object = last'.object
           /\ last.raised = None) =>
            /\ last'.raised = None
            /\ last'.result = last.result
            /\ ~last'.encoded
      ]_vars

\* a record holding the index that only new or feed can give it is dumped,
\* and the dump encoded its fields
C4_Witness ==
    /\ last.op = "dump"
    /\ last.args.standalone
    /\ last.raised = None
    /\ last.encoded
    /\ objects[last.object].type = "IDAndIndex"
    /\ objects[last.object].origin = NoBytes
    /\ objects[last.object]._data["index"] = <<"3", "0", "0", "0">>

(***************************************************************************)
(* C5: switch on a tree whose case key is set and whose tag is in nodes    *)
(* returns nodes[tag]; with the tag not in nodes it returns default_node   *)
(* when there is one, and raises NotImplementedError naming the tag when   *)
(* there is none.                                                          *)
(***************************************************************************)
C5_SwitchDefault ==
    LET self == objects[last.object]
        tag == self._data[case_key(self.type)]
    IN  (/\ last.op = "switch"
         /\ case_key(self.type) # None
         /\ case_key(self.type) \in DOMAIN self._data) =>
            IF tag \in DOMAIN nodes[self.type]
            THEN last.raised = None /\ last.result = nodes[self.type][tag]
            ELSE IF default_node[self.type] # None
            THEN last.raised = None /\ last.result = default_node[self.type]
            ELSE last.raised = "NotImplementedError" /\ last.args.key = tag

(***************************************************************************)
(* C6: for a type L registered by case(t) in a tree P and an instance of L *)
(* holding a valid field set f, dump with standalone false returns the     *)
(* bytes of a P envelope whose case key holds t and whose data key holds   *)
(* the bytes of L's own fields, and P read from those bytes resolves to an *)
(* L instance whose fields are f.                                          *)
(***************************************************************************)
C6_EnvelopeRoundTrip ==
    LET self == objects[last.object]
        spec == switch_spec[self.type]
    IN  (/\ last.op = "dump"
         /\ ~last.args.standalone
         /\ spec.tree # None
         /\ CanBuild(manager(self.type), self._data)) =>
            /\ last.raised = None
            /\ CanParse(manager(spec.tree), last.result)
            /\ LET envelope == Parse(manager(spec.tree), last.result)
                   back == Tree_read(from_dict(spec.tree, EmptyDict),
                                     last.result, FALSE)
               IN  /\ envelope[case_key(spec.tree)] = spec.key
                   /\ envelope[data_key(spec.tree)]
                         = Build(manager(self.type), self._data)
                   /\ back.raised = None
                   /\ back.node.type = self.type
                   /\ back.node._data = self._data

(***************************************************************************)
(* Tree.case and Node.on_register called on the classes themselves.        *)
(***************************************************************************)
\* cls.case(value)(node_cls): the entry of cls.nodes, the switch_spec of
\* node_cls, and node_cls.on_register(node_cls=cls), which makes the registry
\* attribute of node_cls name the WeakSet that cls.registry names
case(cls, value, node_cls) ==
    /\ nodes' = [nodes EXCEPT ![cls] = (value :> node_cls) @@ @]
    /\ switch_spec' = [switch_spec EXCEPT
                          ![node_cls] = [tree |-> cls, key |-> value]]
    /\ registry' = [registry EXCEPT ![node_cls] = registry[cls]]
    /\ last' = Result("case", None, NoNode,
                      [cls |-> cls, value |-> value, node_cls |-> node_cls],
                      <<>>, <<>>, 0, 0, None)
    /\ UNCHANGED <<_registry, _handlers, protocols, members, default_node,
                   objects>>
    /\ UNCHANGED childVars

\* node_cls.on_register(protocol_cls=protocol, add_protocol=add_protocol)
Node_on_register(node_cls, protocol, add_protocol) ==
    /\ protocols[protocol].cls # None
    /\ members' = on_register(members, node_cls, protocol, add_protocol)
    /\ last' = Result("on_register", protocol, NoNode,
                      [node_cls |-> node_cls, add_protocol |-> add_protocol],
                      <<>>, <<>>, 0, 0, None)
    /\ UNCHANGED <<_registry, _handlers, protocols, registry, treeVars>>
    /\ UNCHANGED childVars

\* the interest set of a record type: the WeakSet its registry names
InterestSet(type) == members[registry[type]]

(***************************************************************************)
(* SpecInterest: the catalogue as imported, Sessions with its entry for    *)
(* SessionCommands; further types are registered with and without a guard, *)
(* further cases are declared, one instance is constructed and configured, *)
(* and on_register is called on the types directly.                        *)
(***************************************************************************)
InitInterest ==
    /\ _registry = [cls \in ProtocolTypes |->
                      IF cls = "Sessions"
                      THEN <<[node_cls |-> "SessionCommands",
                              condition |-> NoCondition]>>
                      ELSE <<>>]
    /\ _handlers = [cls \in ProtocolTypes |-> NoHandlers]
    /\ protocols = [protocol \in Instances |-> NoProtocol]
    /\ registry = ImportedRegistry
    /\ members = [type \in NodeTypes |-> {}]
    /\ last = NoCall
    /\ InitCatalogue
    /\ InitChildless

RegisterInterest ==
    \E registered \in NodeTypes,
       condition \in {NoCondition, configured("mode", "a")} :
        register("Sessions", registered, condition)

ConstructInterest ==
    \E mode \in Values : construct("p1", "Sessions", ConfigOf(mode))

ConfigureInterest ==
    \E mode \in Values : configure("p1", ConfigOf(mode))

CaseInterest ==
    \E node_cls \in {"Command", "IDAndIndex"} :
        case("SessionCommands", <<"1">>, node_cls)

OnRegisterInterest ==
    \E node_cls \in NodeTypes, add_protocol \in BOOLEAN :
        Node_on_register(node_cls, "p1", add_protocol)

NextInterest ==
    \/ RegisterInterest
    \/ ConstructInterest
    \/ ConfigureInterest
    \/ CaseInterest
    \/ OnRegisterInterest

SpecInterest == InitInterest /\ [][NextInterest]_vars

\* the record types a configure of an instance of cls calls on_register on
RegisteredTypes(cls) ==
    {_registry[cls][i].node_cls : i \in 1..Len(_registry[cls])}

(***************************************************************************)
(* C11: the interest sets of distinct record types are independent: a step *)
(* that adds or removes a dispatcher for a type T (on_register on T, or a  *)
(* configure over the registered types) changes the interest set of no     *)
(* type other than T (resp. other than the registered types), the parent   *)
(* tree of T and the other cases of that tree included.                    *)
(***************************************************************************)
C11_InterestFrame ==
    [][/\ last'.op = "on_register" =>
            \A other \in NodeTypes \ {last'.args.node_cls} :
                members'[registry'[other]] = InterestSet(other)
       /\ last'.op \in {"configure", "__init__"} =>
            \A other \in NodeTypes \ RegisteredTypes(last'.args.cls) :
                members'[registry'[other]] = InterestSet(other)
      ]_vars

(***************************************************************************)
(* C16: after a configure (or the configure of __init__) that does not     *)
(* abort, the dispatcher is in the interest set of a type of its registry  *)
(* exactly when the guard of that type is absent or true under the         *)
(* configuration it has then; and when configure aborts at the wildcard,   *)
(* the dispatcher's membership for the entries after the wildcard is what  *)
(* it was before the call.                                                 *)
(***************************************************************************)
C16_GuardedInterest ==
    [][last'.op \in {"configure", "__init__"} =>
        LET protocol == last'.protocol
            entries == _registry'[last'.args.cls]
            Passes(i) == \/ entries[i].condition = NoCondition
                         \/ check(entries[i].condition, last'.args.config,
                                  NoNode)
        IN  /\ (last'.raised = None /\ ~protocols'[protocol]._aborted) =>
                  \A i \in 1..Len(entries) :
                      (protocol \in members'[registry'[entries[i].node_cls]])
                          <=> Passes(i)
            /\ (protocols'[protocol]._aborted
                    /\ ~protocols[protocol]._aborted) =>
                  \A i, j \in 1..Len(entries) :
                      (entries[i].node_cls = ALL_NODES /\ i < j) =>
                          ((protocol
                              \in members'[registry'[entries[j].node_cls]])
                           <=> (protocol \in InterestSet(entries[j].node_cls)))
      ]_vars

(***************************************************************************)
(* SpecIf: conditions built by If.configured, If.has, If.returns_false,    *)
(* & and |, checked against a dispatcher configuration and a record.       *)
(***************************************************************************)
\* condition.check(protocol, node) for a protocol whose _config is config
If_check(condition, config, node) ==
    /\ last' = Result("check", None, node,
                      [condition |-> condition, config |-> config,
                       value |-> check(condition, config, node)],
                      <<>>, <<>>, 0, 0, None)
    /\ UNCHANGED <<dispatchVars, treeVars>>

BaseConditions == {configured("mode", "a"), has("x", "a")}

BuiltConditions ==
    BaseConditions
    \cup {returns_false(c) : c \in BaseConditions}
    \cup {returns_false(CheckMethod(c)) : c \in BaseConditions}
    \cup {__and__(c, d) : c, d \in BaseConditions}
    \cup {__or__(c, d) : c, d \in BaseConditions}

CheckedConditions ==
    BuiltConditions \cup {returns_false(c) : c \in BuiltConditions}

CheckIf ==
    \E condition \in CheckedConditions, mode \in Values \cup {None},
       x \in Values :
        If_check(condition, ConfigOf(mode), NodeOf("IDAndIndex", x))

NextIf == CheckIf

SpecIf == InitNode /\ [][NextIf]_vars

(***************************************************************************)
(* C12: for every condition c built by If.configured, If.has, &, | or      *)
(* If.returns_false, and every dispatcher and record, If.returns_false(c)  *)
(* checks to the logical inverse of what c checks to.                      *)
(***************************************************************************)
C12_Negate ==
    (/\ last.op = "check"
     /\ last.args.condition.kind = "returns_false"
     /\ last.args.condition.check \in BuiltConditions) =>
        last.args.value
            = ~check(last.args.condition.check, last.args.config, last.node)

(***************************************************************************)
(* SpecSelect: the dispatcher of SpecDispatch; handlers are registered for *)
(* IDAndIndex, for its base type Command and for the wildcard, without a   *)
(* condition, under a condition on the record and under one on the         *)
(* configuration; the instance is configured again between dispatches.     *)
(***************************************************************************)
RegisterHandlerSelect ==
    \E node_cls \in {"IDAndIndex", "Command", ALL_NODES},
       condition \in {NoCondition, has("x", "a"), configured("mode", "a")} :
        register_handler("Sessions", "f", node_cls, None, NORMAL, condition,
                         TRUE)

ConfigureSelect == \E mode \in Values : configure("p1", ConfigOf(mode))

HandleSelect ==
    \E x \in Values : handle("p1", NodeOf("IDAndIndex", x), {"a"})

NextSelect == RegisterHandlerSelect \/ ConfigureSelect \/ HandleSelect

SpecSelect == InitDispatch /\ [][NextSelect]_vars

\* the places (key, group, index) of the descriptors of a table that are
\* registered under the type of the node or under the wildcard, in a group
\* whose condition is absent or true for the configuration and the node
EligibleSlots(table, config, node) ==
    {slot \in {node.type, ALL_NODES} \X (1..TableSize(table))
                                     \X (1..TableSize(table)) :
        /\ slot[2] <= Len(table[slot[1]])
        /\ slot[3] <= Len(table[slot[1]][slot[2]].cases)
        /\ \/ table[slot[1]][slot[2]].condition = NoCondition
           \/ check(table[slot[1]][slot[2]].condition, config, node)}

SlotHandler(table, slot) == table[slot[1]][slot[2]].cases[slot[3]]

(***************************************************************************)
(* C13: for a dispatcher that is not aborted and is interested, handle(r)  *)
(* invokes exactly the descriptors registered on its type under the exact  *)
(* type of r or under the wildcard whose condition is absent or true for   *)
(* the dispatcher and r at that moment, each once, and no descriptor       *)
(* registered under another type (a base type of r's included) or under a  *)
(* false condition; what an earlier dispatch did has no part in it.        *)
(***************************************************************************)
C13_Selection ==
    (/\ last.op = "handle"
     /\ ~protocols[last.protocol]._aborted
     /\ last.protocol \in InterestSet(last.node.type)) =>
        LET table == _handlers[protocols[last.protocol].cls]
            slots == EligibleSlots(table, protocols[last.protocol]._config,
                                   last.node)
        IN  /\ Len(last.calls) = Cardinality(slots)
            /\ Len(last.handlers) = Len(last.calls)
            /\ \A i \in 1..Len(last.calls) :
                  last.calls[i].function = last.handlers[i].function
            /\ \A h \in {SlotHandler(table, slot) : slot \in slots}
                        \cup {last.handlers[i] : i \in 1..Len(last.handlers)} :
                  Cardinality({i \in 1..Len(last.handlers) :
                                  last.handlers[i] = h})
                      = Cardinality({slot \in slots :
                                        SlotHandler(table, slot) = h})

\* one descriptor was invoked although three are registered: one under the
\* base type, one under a condition the record fails
C13_Witness ==
    /\ last.op = "handle"
    /\ last.node.x = "b"
    /\ Len(last.calls) = 1
    /\ _handlers["Sessions"]["Command"] # <<>>
    /\ \E i \in 1..Len(_handlers["Sessions"]["IDAndIndex"]) :
          _handlers["Sessions"]["IDAndIndex"][i].condition = has("x", "a")
    /\ _handlers["Sessions"][ALL_NODES] # <<>>

\* what the nearest call before the i-th that did not raise returned
NearestValue(calls, i) ==
    LET returned == {j \in 1..(i - 1) : calls[j].outcome # "raise"}
    IN  IF returned = {} THEN None
        ELSE calls[CHOOSE j \in returned : \A k \in returned : k <= j].outcome

(***************************************************************************)
(* C14: in one handle call the accumulator is a fold: the first handler    *)
(* called sees None, each later one sees the value the nearest earlier     *)
(* handler that did not raise returned (None when there is none), and a    *)
(* reducer is passed just that value; nothing of the accumulator of an     *)
(* earlier handle call is seen.                                            *)
(***************************************************************************)
C14_AccumulatorFold ==
    last.op = "handle" =>
        \A i \in 1..Len(last.calls) :
            /\ last.calls[i].previous_value = NearestValue(last.calls, i)
            /\ is_reducer(last.handlers[i]) =>
                  last.calls[i].args[Len(last.calls[i].args)]
                      = NearestValue(last.calls, i)

\* the first handler raised, the second returned b, and a reducer called
\* third was passed b
C14_Witness ==
    /\ last.op = "handle"
    /\ Len(last.calls) = 3
    /\ last.calls[1].outcome = "raise"
    /\ last.calls[2].previous_value = None
    /\ last.calls[2].outcome = "b"
    /\ last.calls[3].function = "g"
    /\ last.calls[3].args[Len(last.calls[3].args)] = "b"

(***************************************************************************)
(* C15: the arguments of a handler's call are, in this order: the          *)
(* dispatcher iff pass_protocol, the record, the peer type iff the bound   *)
(* function is tagged as a responder, the accumulator iff it is tagged as  *)
(* a reducer; a peer type given at registration does not by itself make    *)
(* the peer type an argument.                                              *)
(***************************************************************************)
C15_CallArguments ==
    last.op = "handle" =>
        \A i \in 1..Len(last.calls) :
            LET handler == last.handlers[i]
            IN  last.calls[i].args =
                    (IF handler.pass_protocol THEN <<last.protocol>>
                     ELSE <<>>)
                    \o <<last.node.type>>
                    \o (IF handler.function \in ResponderTagged
                        THEN <<handler.responder_cls>> ELSE <<>>)
                    \o (IF handler.function \in ReducerTagged
                        THEN <<last.calls[i].previous_value>> ELSE <<>>)

\* the registry of cls holds a guard for the wildcard, and it passes under config
WildcardGuardPasses(cls, config) ==
    /\ \E i \in 1..Len(_registry[cls]) : _registry[cls][i].node_cls = ALL_NODES
    /\ ~WildcardGuardFails(cls, config)

\* the registry of cls opens the gate of the type under config: an entry for
\* the type whose guard is absent or true
GateOpen(cls, config, type) ==
    \E i \in 1..Len(_registry[cls]) :
        /\ _registry[cls][i].node_cls = type
        /\ \/ _registry[cls][i].condition = NoCondition
           \/ /\ ~_registry[cls][i].condition.checks_node
              /\ check(_registry[cls][i].condition, config, NoNode)

set_switch(object, key) ==
    /\ objects[object].type # None
    /\ objects' = [objects EXCEPT ![object] = Tree_set_switch(@, key)]
    /\ last' = NodeResult("set_switch", object, [key |-> key], NoBytes,
                          FALSE, None)
    /\ UNCHANGED <<dispatchVars, nodes, switch_spec, default_node>>

\* Node.discard_keys: del self._data[key] for the keys that are there
Node_discard_keys(self, keys) ==
    [self EXCEPT !._data = DictDiscard(@, keys)]

discard_keys(object, keys) ==
    /\ objects[object].type # None
    /\ objects' = [objects EXCEPT ![object] = Node_discard_keys(@, keys)]
    /\ last' = NodeResult("discard_keys", object, [keys |-> keys], NoBytes,
                          FALSE, None)
    /\ UNCHANGED <<dispatchVars, nodes, switch_spec, default_node>>

\* Node.refresh(context) with context None: self.read(self.origin, None) when
\* the origin is truthy; for a Tree the second positional argument is basic
Node_refresh(self) ==
    IF self.origin # NoBytes /\ self.origin # <<>>
    THEN Tree_read(self, self.origin, FALSE)
    ELSE [self |-> self, node |-> self, raised |-> None]

refresh(object) ==
    LET r == Node_refresh(objects[object])
    IN  /\ objects[object].type # None
        /\ objects' = [objects EXCEPT ![object] = r.self]
        /\ last' = NodeResult("refresh", object, [context |-> None],
                              NoBytes, FALSE, r.raised)
        /\ UNCHANGED <<dispatchVars, nodes, switch_spec, default_node>>

(***************************************************************************)
(* SpecMutate: the record of SpecNode, with set_switch, discard_keys and   *)
(* refresh called on it as well.                                           *)
(***************************************************************************)
SetSwitchNode == \E key \in {<<"0">>, <<"2">>} : set_switch("n1", key)
DiscardNode == \E key \in {"size", "index"} : discard_keys("n1", {key})
RefreshNode == refresh("n1")

NextMutate == NextNode \/ SetSwitchNode \/ DiscardNode \/ RefreshNode

SpecMutate == InitNode /\ [][NextMutate]_vars

(***************************************************************************)
(* C18: in every state a record reaches by read, feed, dump, refresh,      *)
(* set_switch and discard_keys, a buffer (cache) that is present is the    *)
(* encoding of the fields the record holds, and an origin that is present  *)
(* is the buffer of a decode whose fields the record still holds: every    *)
(* change of the fields clears both.                                       *)
(***************************************************************************)
C18_CacheAndOriginValid ==
    \A object \in Objects :
        LET self == objects[object]
            fields == manager(self.type)
        IN  self.type # None =>
              /\ self.buffer # NoBytes =>
                    /\ CanBuild(fields, self._data)
                    /\ self.buffer = Build(fields, self._data)
              /\ self.origin # NoBytes =>
                    /\ CanParse(fields, self.origin)
                    /\ \A i \in 1..Len(fields) :
                          /\ fields[i].name \in DOMAIN self._data
                          /\ self._data[fields[i].name]
                                = Parse(fields, self.origin)[fields[i].name]


(***************************************************************************)
(* SpecChild: the dispatcher type Sessions has a child type, Other,        *)
(* declared with extends=Sessions after Sessions registered its record     *)
(* type; two instances of Sessions are constructed, each with its own      *)
(* child; handlers whose function is a plain function or the child type    *)
(* are registered on Sessions, and both instances handle records.          *)
(***************************************************************************)
InitChild ==
    /\ _registry = [cls \in ProtocolTypes |->
                      <<[node_cls |-> "SessionCommands",
                         condition |-> NoCondition]>>]
    /\ _handlers = [cls \in ProtocolTypes |-> NoHandlers]
    /\ protocols = [protocol \in Instances |-> NoProtocol]
    /\ registry = ImportedRegistry
    /\ members = [type \in NodeTypes |-> {}]
    /\ last = NoCall
    /\ InitCatalogue
    /\ _children = [cls \in ProtocolTypes |->
                      IF cls = "Sessions" THEN <<"Other">> ELSE <<>>]
    /\ children = [protocol \in Instances |-> NoChildren]

ConstructChild ==
    \E protocol \in Protocols :
        construct(protocol, "Sessions", ConfigOf(None))

RegisterHandlerChild ==
    \E function \in {"f", "Other"}, node_cls \in {"IDAndIndex", ALL_NODES},
       status \in {NORMAL, URGENT} :
        register_handler("Sessions", function, node_cls, None, status,
                         NoCondition, TRUE)

HandleChild ==
    \E protocol \in Protocols, x \in Values :
        handle(protocol, NodeOf("IDAndIndex", x), {"a"})

NextChild == ConstructChild \/ RegisterHandlerChild \/ HandleChild

SpecChild == InitChild /\ [][NextChild]_vars

(***************************************************************************)
(* C19: a handle call of an instance D leaves the handler table of its     *)
(* type as it was, and every call it makes of a child's handle is a call   *)
(* of the handle of a child of D itself, with the record as only argument. *)
(***************************************************************************)
C19_ChildDispatch ==
    [][last'.op = "handle" =>
          /\ _handlers' = _handlers
          /\ \A i \in 1..Len(last'.calls) :
                last'.calls[i].function \in ChildInstances =>
                    /\ \E cls \in ProtocolTypes :
                          children[last'.protocol][cls]
                              = last'.calls[i].function
                    /\ last'.calls[i].args = <<last'.node.type>>]_vars


(***************************************************************************)
(* snss/protocol.py: Sessions.open, the loop that reads a session file.    *)
(* A file is a sequence of cells and a read position.  A cell that is read *)
(* as an integer is one of ByteCells, the cell of n being ByteCells[n+1].  *)
(***************************************************************************)
MaxRecords == 3

ByteCells == <<"0", "1", "2", "3", "4", "5", "6", "7", "8", "9", "10", "11",
               "12", "13", "14", "15">>

Cell(n) == ByteCells[n + 1]

\* Int8un.parse and Int16un.parse (native order: the low byte comes first)
Int8un(cell) == (CHOOSE n \in 1..Len(ByteCells) : ByteCells[n] = cell) - 1
Int16un(cells) == Int8un(cells[1]) + 256 * Int8un(cells[2])

magic_header == <<"S", "N", "S", "S">>

\* file.read(n) at a position: at most n cells, fewer at the end of the file
FileRead(file, position, n) ==
    SubSeq(file, position + 1,
           IF position + n < Len(file) THEN position + n ELSE Len(file))

\* the handler table of Sessions after its class statement: on_command is
\* decorated handles(ALL_NODES) and registered by __init_subclass__
SessionsHandlers ==
    RegisterHandlerResult(NoHandlers, "on_command", ALL_NODES, None, NORMAL,
                          NoCondition, TRUE).table

\* what open leaves in last: the positions at which it read a full header,
\* the records it passed to handle, the calls those made, where it stopped
OpenResult(protocol, args, acc) ==
    [op |-> "open", protocol |-> protocol, node |-> NoNode, args |-> args,
     handlers |-> <<>>, calls |-> acc.calls, on_error |-> acc.on_error,
     on_unknown_case |-> acc.on_unknown_case, raised |-> acc.raised,
     headers |-> acc.headers, handled |-> acc.handled,
     position |-> acc.position]

NoReads ==
    [headers |-> <<>>, handled |-> <<>>, calls |-> <<>>, on_error |-> 0,
     on_unknown_case |-> 0, raised |-> None, position |-> 0]

\* the one element of a singleton: a value is computed once where a name is
\* bound to it, {e(x) : x \in {value}}
Only(S) == CHOOSE r \in S : TRUE

\* the second half of one turn of the loop, for a header whose type is a
\* case: node_class.manager.sizeof() + 3 bytes are read, tree.load decodes
\* the header and those, the header's fields with the origin of the node
\* under data_key are fed to the node, and the node is handled.  on_command
\* returns None (it appends the record to self.commands).  Its value is
\* what the turn leaves: the position, the tree, the account, and whether
\* the loop goes on
open_known(protocol, file, after, tree, seen, node_class) ==
    Only({
      IF loaded.raised # None
      THEN [position |-> after + Len(body), tree |-> tree, on |-> FALSE,
            acc |-> [seen EXCEPT !.raised = loaded.raised,
                                 !.position = after + Len(body)]]
      ELSE Only({
        Only({
          IF result.raised # None
          THEN [position |-> after + Len(body), tree |-> tree, on |-> FALSE,
                acc |-> [seen EXCEPT !.raised = result.raised,
                                     !.position = after + Len(body)]]
          ELSE [position |-> after + Len(body),
                tree |-> [tree EXCEPT !._data = data], on |-> TRUE,
                acc |-> [seen EXCEPT
                            !.handled = Append(@, node),
                            !.calls = @ \o result.calls,
                            !.on_error = @ + result.on_error,
                            !.on_unknown_case = @ + result.on_unknown_case]]
          : result \in {HandleResult(protocol,
                            [type |-> node.type, x |-> None],
                            [i \in 1..MaxHandlers |-> None])}})
        : data \in {DictUpdate(tree._data,
                       (data_key(tree.type) :> loaded.node.origin))},
          node \in {Node_feed(loaded.node,
                       DictUpdate(tree._data,
                           (data_key(tree.type) :> loaded.node.origin)))}})
      : body \in {FileRead(file, after,
                           FixedWidth(manager(node_class)) + 3)},
        loaded \in {Tree_read(from_dict("SessionCommands", EmptyDict),
                        tree.origin
                            \o FileRead(file, after,
                                   FixedWidth(manager(node_class)) + 3),
                        FALSE)}})

\* one turn of the while loop of open: the 3 bytes of a header are read into
\* tree, the one SessionCommands instance of the call, and switched on; for a
\* type that is no case, size + 2 bytes are read and dropped
open_turn(protocol, file, position, tree, acc) ==
    Only({
      IF Len(header) < 3
      THEN [position |-> position + Len(header), tree |-> tree, on |-> FALSE,
            acc |-> [acc EXCEPT !.position = position + Len(header)]]
      ELSE Only({
        IF head.raised # None
        THEN [position |-> position + 3, tree |-> tree, on |-> FALSE,
              acc |-> [seen EXCEPT !.raised = head.raised,
                                   !.position = position + 3]]
        ELSE IF node_class.raised # None
        THEN [position |-> position + 3, tree |-> head.self, on |-> FALSE,
              acc |-> [seen EXCEPT !.raised = node_class.raised,
                                   !.position = position + 3]]
        ELSE IF node_class.value = None
        THEN [position |-> position + 3
                  + Len(FileRead(file, position + 3,
                            Int16un(head.self._data["size"]) + 2)),
              tree |-> head.self, on |-> TRUE, acc |-> seen]
        ELSE open_known(protocol, file, position + 3, head.self, seen,
                        node_class.value)
        : head \in {Tree_read(tree, header, TRUE)},
          node_class \in {Tree_switch(Tree_read(tree, header, TRUE).self)},
          seen \in {[acc EXCEPT !.headers = Append(@, position)]}})
      : header \in {FileRead(file, position, 3)}})

\* the while loop of open from a read position on
RECURSIVE open_loop(_, _, _, _, _)
open_loop(protocol, file, position, tree, acc) ==
    Only({IF turn.on
          THEN open_loop(protocol, file, turn.position, turn.tree, turn.acc)
          ELSE turn.acc
          : turn \in {open_turn(protocol, file, position, tree, acc)}})

\* Sessions.open on a file: the magic is read and compared, then the loop
OpenFile(protocol, file) ==
    IF FileRead(file, 0, 4) # magic_header
    THEN [NoReads EXCEPT !.raised = "ValueError",
                         !.position = Len(FileRead(file, 0, 4))]
    ELSE open_loop(protocol, file, 4,
                   from_dict("SessionCommands", EmptyDict), NoReads)

\* open(file): args tells what the file was made of.  The handler of the
\* runs is a plain function, so the handle calls leave the table as it is
open(protocol, file, args) ==
    /\ protocols[protocol].cls # None
    /\ \E acc \in {OpenFile(protocol, file)} :
           last' = OpenResult(protocol, args, acc)
    /\ UNCHANGED dispatchVars
    /\ UNCHANGED treeVars

(***************************************************************************)
(* SpecStream: a Sessions instance opens files made of the magic and of    *)
(* up to MaxRecords records, each the 2 bytes of its length field, the     *)
(* byte of its type and its payload: 8 bytes (the id and the index) under  *)
(* a type that is a case of SessionCommands, up to 2 bytes under one that  *)
(* is not.  The length field counts the payload and, of the 3 bytes of the *)
(* header, none, the type byte alone, or all: each file is written under   *)
(* one of the three conventions.                                           *)
(***************************************************************************)
Counted == {0, 1, 3}

StreamRecords ==
    [type : {"0", "2"},
     payload : {<<v, "0", "0", "0", "0", "0", "0", "0">> : v \in {"1", "2"}}]
    \cup [type : {"1"}, payload : {<<>>, <<"7">>, <<"7", "7">>}]

Streams == UNION {[1..n -> StreamRecords] : n \in 0..MaxRecords}

\* the bytes of one record and of a file of records
RecordBytes(record, counted) ==
    <<Cell(Len(record.payload) + counted), "0", record.type>>
        \o record.payload

RECURSIVE StreamBytes(_, _)
StreamBytes(records, counted) ==
    IF records = <<>> THEN <<>>
    ELSE RecordBytes(Head(records), counted)
             \o StreamBytes(Tail(records), counted)

InitStream ==
    /\ _registry = [cls \in ProtocolTypes |->
                      IF cls = "Sessions"
                      THEN <<[node_cls |-> "SessionCommands",
                              condition |-> NoCondition]>>
                      ELSE <<>>]
    /\ _handlers = [cls \in ProtocolTypes |->
                      IF cls = "Sessions" THEN SessionsHandlers
                      ELSE NoHandlers]
    /\ protocols = [protocol \in Instances |-> NoProtocol]
    /\ registry = ImportedRegistry
    /\ members = [type \in NodeTypes |-> {}]
    /\ last = NoCall
    /\ InitCatalogue
    /\ InitChildless

ConstructStream == construct("p1", "Sessions", ConfigOf(None))

\* a run opens one file
OpenStream ==
    \E records \in Streams, counted \in Counted :
        /\ last.op # "open"
        /\ \E file \in {magic_header \o StreamBytes(records, counted)} :
               open("p1", file, [records |-> records, counted |-> counted])

NextStream == ConstructStream \/ OpenStream

SpecStream == InitStream /\ [][NextStream]_vars

\* the position of the header of each record of a file
RECURSIVE RecordStarts(_, _)
RecordStarts(records, position) ==
    IF records = <<>> THEN <<>>
    ELSE <<position>>
             \o RecordStarts(Tail(records),
                             position + 3 + Len(Head(records).payload))

\* the records of a file whose type is a case of SessionCommands
Recognized(records) ==
    SelectSeq(records,
              LAMBDA record : <<record.type>> \in DOMAIN nodes["SessionCommands"])

(***************************************************************************)
(* C20: open on a file of the magic and well-formed records ends without   *)
(* an error, reads a header at the start of every record and nowhere else, *)
(* and passes to handle the records of a recognized type, each once, in    *)
(* order and decoded from its own bytes, and no other.                     *)
(***************************************************************************)
C20_StreamLoop ==
    last.op = "open" =>
        /\ last.raised = None
        /\ last.headers = RecordStarts(last.args.records, 4)
        /\ Len(last.handled) = Len(Recognized(last.args.records))
        /\ \A i \in 1..Len(last.handled) :
              LET record == Recognized(last.args.records)[i]
              IN  /\ last.handled[i]._data["type"] = <<record.type>>
                  /\ last.handled[i]._data["id"]
                         = SubSeq(record.payload, 1, 4)
                  /\ last.handled[i]._data["index"]
                         = SubSeq(record.payload, 5, 8)


(***************************************************************************)
(* SpecCompose: record types are registered on Sessions under conditions   *)
(* built from If.configured and If.has with &, | and If.returns_false, and *)
(* an instance is constructed and configured.                              *)
(***************************************************************************)
InitCompose ==
    /\ _registry = [cls \in ProtocolTypes |-> <<>>]
    /\ _handlers = [cls \in ProtocolTypes |-> NoHandlers]
    /\ protocols = [protocol \in Instances |-> NoProtocol]
    /\ registry = ImportedRegistry
    /\ members = [type \in NodeTypes |-> {}]
    /\ last = NoCall
    /\ InitCatalogue
    /\ InitChildless

RegisterCompose ==
    \E registered \in {"SessionCommands", "IDAndIndex"},
       condition \in BuiltConditions :
        register("Sessions", registered, condition)

ConstructCompose ==
    \E mode \in Values : construct("p1", "Sessions", ConfigOf(mode))

ConfigureCompose ==
    \E mode \in Values : configure("p1", ConfigOf(mode))

NextCompose == RegisterCompose \/ ConstructCompose \/ ConfigureCompose

SpecCompose == InitCompose /\ [][NextCompose]_vars

\* a condition built from at least one operand that If.has made
RECURSIVE FromFields(_)
FromFields(condition) ==
    CASE condition.kind = "has" -> TRUE
      [] condition.kind = "method" -> FromFields(condition.self)
      [] condition.kind = "returns_false" -> FromFields(condition.check)
      [] condition.kind \in {"and", "or"} ->
            FromFields(condition.self) \/ FromFields(condition.other)
      [] OTHER -> FALSE

(***************************************************************************)
(* C21: a condition built from an operand that inspects record fields has  *)
(* checks_node set, so register refuses it: no registry holds such a       *)
(* condition, and no configure, which checks its conditions against no     *)
(* record, is left by an exception.                                        *)
(***************************************************************************)
C21_ChecksNodePreserved ==
    /\ \A cls \in ProtocolTypes : \A i \in 1..Len(_registry[cls]) :
          ~FromFields(_registry[cls][i].condition)
    /\ (last.op = "register" /\ FromFields(last.args.condition)) =>
          /\ last.args.condition.checks_node
          /\ last.raised = "ValueError"
    /\ last.op \in {"configure", "__init__"} => last.raised = None


(***************************************************************************)
(* SpecCase: the classes of the catalogue as their class statements leave  *)
(* them, before any case decorator has run: no tree has a case and no type *)
(* a switch_spec.  Command and IDAndIndex are registered as cases of       *)
(* SessionCommands under two tags, in every order, and a record is created *)
(* and dumped wrapped.                                                     *)
(***************************************************************************)
InitCase ==
    /\ _registry = [cls \in ProtocolTypes |-> <<>>]
    /\ _handlers = [cls \in ProtocolTypes |-> NoHandlers]
    /\ protocols = [protocol \in Instances |-> NoProtocol]
    /\ registry = [type \in NodeTypes |-> type]
    /\ members = [type \in NodeTypes |-> {}]
    /\ last = NoCall
    /\ nodes = [type \in NodeTypes |-> EmptyDict]
    /\ switch_spec = [type \in NodeTypes |-> NoSpec]
    /\ default_node = ImportedDefaultNode
    /\ objects = [object \in Objects |-> NoObject]
    /\ InitChildless

CaseCase ==
    \E value \in {<<"0">>, <<"2">>}, node_cls \in {"Command", "IDAndIndex"} :
        case("SessionCommands", value, node_cls)

NewCase ==
    \E type \in {"Command", "IDAndIndex"} : \E data \in DataMenu(type) :
        new("n1", type, data)

DumpCase == dump("n1", FALSE)

NextCase == CaseCase \/ NewCase \/ DumpCase

SpecCase == InitCase /\ [][NextCase]_vars

(***************************************************************************)
(* C22: every type whose switch_spec is (P, t) is the entry of P.nodes     *)
(* under t, every entry of P.nodes under t is a type whose switch_spec is  *)
(* (P, t), and a wrapped dump of a record of a type with a switch_spec     *)
(* uses a key under which the tree holds that type.                        *)
(***************************************************************************)
C22_BackLinks ==
    /\ \A T \in NodeTypes :
          switch_spec[T].tree # None =>
              /\ switch_spec[T].key \in DOMAIN nodes[switch_spec[T].tree]
              /\ nodes[switch_spec[T].tree][switch_spec[T].key] = T
    /\ \A P \in NodeTypes : \A t \in DOMAIN nodes[P] :
          switch_spec[nodes[P][t]] = [tree |-> P, key |-> t]
    /\ (/\ last.op = "dump"
        /\ ~last.args.standalone
        /\ switch_spec[objects[last.object].type].tree # None) =>
          LET spec == switch_spec[objects[last.object].type]
          IN  /\ spec.key \in DOMAIN nodes[spec.tree]
              /\ nodes[spec.tree][spec.key] = objects[last.object].type

====
